---------------------------- MODULE Spec2Model ----------------------------
(***************************************************************************)
(* Model of unchained-bitcoin's multisig transaction signing               *)
(* (transactions.js: unsignedMultisigTransaction,                          *)
(* signedMultisigTransaction) and of its extended public key validation    *)
(* and conversion (keys.js).                                               *)
(*                                                                         *)
(* Every exported function is a pure function of its arguments.  A state   *)
(* is one call: the caller's arguments (fn, network, inputs, outputs,      *)
(* transactionSignatures, key, targetPrefix), the position of the call     *)
(* (pc) and what the call handed back (result).  Init draws the arguments  *)
(* from bounded sets; one action per exported function runs that function  *)
(* from its first line to its return or throw.                             *)
(*                                                                         *)
(* Hex strings are sequences of bytes.  A thrown Error is a record         *)
(* [msg, index, require, received, sig] holding the fixed text of the      *)
(* message and the values interpolated into it.                            *)
(***************************************************************************)
EXTENDS Integers, Sequences, FiniteSets, TLC

VARIABLES pc, fn, network, inputs, outputs, transactionSignatures, key,
          targetPrefix, result

vars == <<pc, fn, network, inputs, outputs, transactionSignatures, key,
          targetPrefix, result>>

args == <<fn, network, inputs, outputs, transactionSignatures, key, targetPrefix>>

-----------------------------------------------------------------------------
(* Bounds of the model. *)

\* Largest number of transaction inputs of a call.
MaxInputs == 2

\* Largest number of rows (transaction signatures) of a signature matrix.
MaxRows == 2

-----------------------------------------------------------------------------
(* Values shared by the functions. *)

MAINNET == "mainnet"

TESTNET == "testnet"

NETWORKS == {MAINNET, TESTNET}

P2SH == "P2SH"

P2SH_P2WSH == "P2SH-P2WSH"

P2WSH == "P2WSH"

\* The empty hex string / empty Buffer.
Empty == <<>>

\* Error message with the values interpolated into it.
Err(msg, index, require, received, sig) ==
  [msg |-> msg, index |-> index, require |-> require, received |-> received, sig |-> sig]

\* An Error carrying a collaborator's message verbatim.
PlainErr(msg) == Err(msg, 0, 0, 0, Empty)

NoErr == PlainErr("")

\* A transaction with no inputs and outputs: the value slot of a call that threw.
NoTransaction == [version |-> 0, ins |-> <<>>, outs |-> <<>>]

Threw(error) == [threw |-> TRUE, error |-> error, value |-> NoTransaction]

Returned(value) == [threw |-> FALSE, error |-> NoErr, value |-> value]

-----------------------------------------------------------------------------
(* Collaborators of transactions.js: ./multisig, ./signatures, ./inputs,   *)
(* ./outputs, ./script and the transaction codec.  A public key is one     *)
(* byte, a script is its serialized bytes, a signature is the DER bytes    *)
(* <<48, 1, k>> made by key k, followed or not by a sighash-type byte.     *)

\* SIGHASH_ALL, the byte "01" the code appends to every signature.
SIGHASH_ALL == 1

RECURSIVE PushKeys(_)
PushKeys(publicKeys) ==
  IF publicKeys = <<>> THEN <<>>
  ELSE <<1, Head(publicKeys)>> \o PushKeys(Tail(publicKeys))

\* The bytes of the script  OP_m <key>... OP_n OP_CHECKMULTISIG  (OP_m is
\* 0x50 + m, OP_CHECKMULTISIG is 0xae).
MultisigScriptBytes(m, publicKeys) ==
  <<80 + m>> \o PushKeys(publicKeys) \o <<80 + Len(publicKeys), 174>>

RECURSIVE SumBytes(_)
SumBytes(bytes) == IF bytes = <<>> THEN 0 ELSE Head(bytes) + SumBytes(Tail(bytes))

\* A one-byte stand-in for the SHA256 of a script.
ScriptDigest(bytes) == SumBytes(bytes) % 256

multisigRequiredSigners(multisig) == multisig.m

multisigPublicKeys(multisig) == multisig.publicKeys

multisigAddressType(multisig) == multisig.addressType

\* The witness script (a payment object; its output is the script).
multisigWitnessScript(multisig) ==
  [output |-> MultisigScriptBytes(multisig.m, multisig.publicKeys)]

\* The redeem script: for P2SH-P2WSH the P2WSH output  OP_0 <digest of the
\* witness script>, otherwise the multisig script itself.
multisigRedeemScript(multisig) ==
  IF multisig.addressType = P2SH_P2WSH
    THEN [output |-> <<0, 1, ScriptDigest(multisigWitnessScript(multisig).output)>>]
    ELSE [output |-> MultisigScriptBytes(multisig.m, multisig.publicKeys)]

\* scriptToHex: the hex of a payment object's output script.
scriptToHex(script) == script.output

\* signatureNoSighashType: the signature without its sighash-type byte.  The
\* DER length byte tells whether a trailing byte is present.
signatureNoSighashType(signature) ==
  IF Len(signature) >= 2 /\ signature[2] = Len(signature) - 2
    THEN signature
    ELSE SubSeq(signature, 1, Len(signature) - 1)

\* A DER signature of the model: 0x30, the length 1, the signing key.
IsDER(signature) ==
  Len(signature) = 3 /\ signature[1] = 48 /\ signature[2] = 1

\* validateMultisigSignature: the public key of the input's multisig that made
\* the signature, FALSE (publicKey 0) when no key of the multisig made it;
\* throws on a signature that does not decode.
validateMultisigSignature(net, ins, outs, inputIndex, inputSignature) ==
  LET der == signatureNoSighashType(inputSignature)
      publicKeys == multisigPublicKeys(ins[inputIndex].multisig)
  IN  IF ~IsDER(der)
        THEN [threw |-> TRUE, publicKey |-> 0]
        ELSE IF \E k \in 1..Len(publicKeys) : publicKeys[k] = der[3]
          THEN [threw |-> FALSE, publicKey |-> der[3]]
          ELSE [threw |-> FALSE, publicKey |-> 0]

\* validateMultisigInputs: "" or the message of the first problem.
validateMultisigInputs(ins) ==
  IF Len(ins) = 0 THEN "At least one input is required."
  ELSE IF \E i \in 1..Len(ins) : ins[i].txid = Empty
    THEN "Does not have a transaction ID ('txid') property."
    ELSE ""

\* validateOutputs: "" or the message of the first problem.
validateOutputs(net, outs) ==
  IF Len(outs) = 0 THEN "At least one output is required."
  ELSE IF \E i \in 1..Len(outs) : outs[i].address.network # net
    THEN "Output address is invalid for the network."
    ELSE ""

\* bitcoin.script.fromASM then payments.p2ms / generateMultisigFromRaw: the
\* unlocking script of a legacy multisig, as its chunks: the chunks of the
\* ASM followed by the push of the redeem script.
generateMultisigFromRaw(addressType, asmChunks, redeemOutput) ==
  [input |-> asmChunks \o <<redeemOutput>>]

-----------------------------------------------------------------------------
(* transactions.js *)

\* JavaScript's Boolean(x) of a string or of undefined.
Truthy(x) == x # Empty

\* row[i] of a JavaScript array: undefined (falsy) beyond its length.
At(row, i) == IF i <= Len(row) THEN row[i] ELSE Empty

\* The input of the transaction builder for one caller input: no unlocking data.
TxIn(input) ==
  [hash |-> input.txid, index |-> input.index, script |-> <<>>, witness |-> <<>>]

TxOut(output) == [address |-> output.address, value |-> output.amountSats]

\* The outputs validated before the inputs.
unsignedMultisigTransaction_OutputsFirst(net, ins, outs) ==
  IF validateOutputs(net, outs) # ""
    THEN Threw(PlainErr(validateOutputs(net, outs)))
  ELSE IF validateMultisigInputs(ins) # ""
    THEN Threw(PlainErr(validateMultisigInputs(ins)))
  ELSE Returned([version |-> 1,
                 ins  |-> [i \in 1..Len(ins) |-> TxIn(ins[i])],
                 outs |-> [o \in 1..Len(outs) |-> TxOut(outs[o])]])

unsignedMultisigTransaction(net, ins, outs) ==
  IF validateMultisigInputs(ins) # ""
    THEN Threw(PlainErr(validateMultisigInputs(ins)))
  ELSE IF validateOutputs(net, outs) # ""
    THEN Threw(PlainErr(validateOutputs(net, outs)))
  ELSE Returned([version |-> 1,
                 ins  |-> [i \in 1..Len(ins) |-> TxIn(ins[i])],
                 outs |-> [o \in 1..Len(outs) |-> TxOut(outs[o])]])

\* The first row whose length is not the number of inputs: a check that
\* also turns down the rows that are longer.
FirstShortRow_NotEqual(rows, n) ==
  IF \E r \in 1..Len(rows) : Len(rows[r]) # n
    THEN CHOOSE r \in 1..Len(rows) :
           /\ Len(rows[r]) # n
           /\ \A q \in 1..(r - 1) : Len(rows[q]) = n
    ELSE 0

\* Lines 573-577: the index (from 1) of the first row shorter than the number
\* of inputs, the row the forEach throws on; 0 if there is none.
FirstShortRow(rows, n) ==
  IF \E r \in 1..Len(rows) : Len(rows[r]) < n
    THEN CHOOSE r \in 1..Len(rows) :
           /\ Len(rows[r]) < n
           /\ \A q \in 1..(r - 1) : Len(rows[q]) >= n
    ELSE 0

\* Lines 583-585: this input's entry of every row, falsy entries dropped.
InputSignatures(rows, inputIndex) ==
  SelectSeq([r \in 1..Len(rows) |-> At(rows[r], inputIndex)], Truthy)

\* inputSignaturesByPublicKey = {}: no public key has a signature.
NoSignatures == [publicKey \in {} |-> Empty]

\* inputSignaturesByPublicKey[publicKey], undefined (falsy) when not set.
Lookup(byPublicKey, publicKey) ==
  IF publicKey \in DOMAIN byPublicKey THEN byPublicKey[publicKey] ELSE Empty

\* A check that never finds the public key claimed.
Claimed_Never(byPublicKey, publicKey) == FALSE

\* Line 603: an earlier signature of this input resolved to the public key.
Claimed(byPublicKey, publicKey) == Truthy(Lookup(byPublicKey, publicKey))

\* No public key ever found missing.
NoPublicKey_Never(publicKey) == FALSE

\* !publicKey (line 600).
NoPublicKey(publicKey) == publicKey = 0

\* Lines 593-607: the forEach over the input's signatures, from signature j on.
RECURSIVE ResolveSignatures(_, _, _, _, _, _, _)
ResolveSignatures(net, ins, outs, inputIndex, inputSignatures, j, byPublicKey) ==
  IF j > Len(inputSignatures)
    THEN [threw |-> FALSE, error |-> NoErr, byPublicKey |-> byPublicKey]
  ELSE
    LET inputSignature == inputSignatures[j]
        v == validateMultisigSignature(net, ins, outs, inputIndex, inputSignature)
    IN  IF v.threw
          THEN [threw |-> TRUE,
                error |-> Err("Invalid signature for input (threw)", inputIndex, 0, 0,
                              inputSignature),
                byPublicKey |-> byPublicKey]
        ELSE IF NoPublicKey(v.publicKey)
          THEN [threw |-> TRUE,
                error |-> Err("Invalid signature for input", inputIndex, 0, 0,
                              inputSignature),
                byPublicKey |-> byPublicKey]
        ELSE IF Claimed(byPublicKey, v.publicKey)
          THEN [threw |-> TRUE,
                error |-> Err("Duplicate signature for input", inputIndex, 0, 0,
                              inputSignature),
                byPublicKey |-> byPublicKey]
        ELSE ResolveSignatures(net, ins, outs, inputIndex, inputSignatures, j + 1,
               [k \in (DOMAIN byPublicKey) \cup {v.publicKey} |->
                  IF k = v.publicKey THEN inputSignature ELSE byPublicKey[k]])

\* The predicate of the filter of line 614.
KeepSignature(signature) ==
  IF Truthy(signature) THEN Truthy(signatureNoSighashType(signature)) ELSE FALSE

\* The signatures in the order of the values of their public keys (the order
\* in which an object enumerates its keys), not of the multisig's list.
SortedSignatures_ByKeyValue(multisig, byPublicKey) ==
  SelectSeq([k \in 1..3 |-> Lookup(byPublicKey, k)], KeepSignature)

\* No more signatures kept than the multisig requires.
SortedSignatures_OnlyRequired(multisig, byPublicKey) ==
  LET publicKeys == multisigPublicKeys(multisig)
      all == SelectSeq([k \in 1..Len(publicKeys) |-> Lookup(byPublicKey, publicKeys[k])],
                       KeepSignature)
      m == multisigRequiredSigners(multisig)
  IN  SubSeq(all, 1, IF Len(all) < m THEN Len(all) ELSE m)

\* Lines 611-614: the signatures in the order of the multisig's public keys.
SortedSignatures(multisig, byPublicKey) ==
  LET publicKeys == multisigPublicKeys(multisig)
  IN  SelectSeq([k \in 1..Len(publicKeys) |-> Lookup(byPublicKey, publicKeys[k])],
                KeepSignature)

\* The witness with "01" appended to the signatures as supplied.
multisigWitnessField_NoStrip(multisig, sortedSignatures) ==
  <<Empty>>
    \o [s \in 1..Len(sortedSignatures) |-> sortedSignatures[s] \o <<SIGHASH_ALL>>]
    \o <<scriptToHex(multisigWitnessScript(multisig))>>

multisigWitnessField(multisig, sortedSignatures) ==
  <<Empty>>
    \o [s \in 1..Len(sortedSignatures) |->
          signatureNoSighashType(sortedSignatures[s]) \o <<SIGHASH_ALL>>]
    \o <<scriptToHex(multisigWitnessScript(multisig))>>

multisigScriptSig(multisig, signersInputSignatures) ==
  LET signatureOps == [s \in 1..Len(signersInputSignatures) |->
                         signatureNoSighashType(signersInputSignatures[s])
                           \o <<SIGHASH_ALL>>]
      inputScript == <<Empty>> \o signatureOps   \* OP_0 pushes the empty vector
  IN  generateMultisigFromRaw(multisigAddressType(multisig), inputScript,
                              multisigRedeemScript(multisig).output)

\* The P2SH-P2WSH branch without its scriptSig.
SetUnlocking_NoRedeemPush(txIn, multisig, sortedSignatures) ==
  IF multisigAddressType(multisig) = P2WSH \/ multisigAddressType(multisig) = P2SH_P2WSH
    THEN [txIn EXCEPT !.witness = multisigWitnessField(multisig, sortedSignatures)]
    ELSE [txIn EXCEPT !.script = multisigScriptSig(multisig, sortedSignatures).input]

\* Lines 616-627: the unlocking data of one input, by address type.
SetUnlocking(txIn, multisig, sortedSignatures) ==
  IF multisigAddressType(multisig) = P2WSH
    THEN [txIn EXCEPT !.witness = multisigWitnessField(multisig, sortedSignatures)]
  ELSE IF multisigAddressType(multisig) = P2SH_P2WSH
    THEN [txIn EXCEPT !.witness = multisigWitnessField(multisig, sortedSignatures),
                      !.script  = <<multisigRedeemScript(multisig).output>>]
  ELSE [txIn EXCEPT !.script = multisigScriptSig(multisig, sortedSignatures).input]

\* The count check letting through one signature fewer than required.
InsufficientSignatures_OffByOne(inputSignatures, requiredSignatures) ==
  Len(inputSignatures) < requiredSignatures - 1

\* Line 588: the count check on the signatures collected for an input.
InsufficientSignatures(inputSignatures, requiredSignatures) ==
  Len(inputSignatures) < requiredSignatures

\* A failure that hands the caller the transaction as far as it was signed.
Abort_Partial(error, signedTransaction) ==
  [threw |-> TRUE, error |-> error, value |-> signedTransaction]

\* throw new Error(...): the call ends with the error; the function's local
\* signedTransaction is dropped with its frame and is not handed to the caller.
Abort(error, signedTransaction) == Threw(error)

\* Lines 580-628: the loop over the inputs, from inputIndex on.
RECURSIVE SignInputs(_, _, _, _, _, _)
SignInputs(net, ins, outs, rows, inputIndex, signedTransaction) ==
  IF inputIndex > Len(ins) THEN Returned(signedTransaction)
  ELSE
    LET input == ins[inputIndex]
        inputSignatures == InputSignatures(rows, inputIndex)
        requiredSignatures == multisigRequiredSigners(input.multisig)
    IN  IF InsufficientSignatures(inputSignatures, requiredSignatures)
          THEN Abort(Err("Insufficient signatures for input", inputIndex,
                         requiredSignatures, Len(inputSignatures), Empty),
                     signedTransaction)
        ELSE
          LET resolved == ResolveSignatures(net, ins, outs, inputIndex,
                                            inputSignatures, 1, NoSignatures)
          IN  IF resolved.threw THEN Abort(resolved.error, signedTransaction)
              ELSE SignInputs(net, ins, outs, rows, inputIndex + 1,
                     [signedTransaction EXCEPT !.ins[inputIndex] =
                        SetUnlocking(@, input.multisig,
                                     SortedSignatures(input.multisig,
                                                      resolved.byPublicKey))])

\* transactionSignatures is [defined, rows]: undefined/null, or an array of rows.
signedMultisigTransaction(net, ins, outs, sigs) ==
  LET unsignedTransaction == unsignedMultisigTransaction(net, ins, outs)
  IN  IF unsignedTransaction.threw THEN unsignedTransaction
      ELSE IF ~sigs.defined \/ Len(sigs.rows) = 0
        THEN Threw(PlainErr("At least one transaction signature is required."))
      ELSE IF FirstShortRow(sigs.rows, Len(ins)) # 0
        THEN LET r == FirstShortRow(sigs.rows, Len(ins))
             IN  Threw(Err("Insufficient input signatures for transaction signature",
                           r, Len(ins), Len(sigs.rows[r]), Empty))
      ELSE SignInputs(net, ins, outs, sigs.rows, 1, unsignedTransaction.value)

-----------------------------------------------------------------------------
(* The arguments of the calls on transactions.js. *)

SeqsUpTo(S, n) == UNION {[1..k -> S] : k \in 0..n}

Multisig(addressType, m, publicKeys) ==
  [addressType |-> addressType, m |-> m, publicKeys |-> publicKeys]

\* A signature by public key k, with or without a trailing sighash-type byte.
Sig(k, withSighashType) ==
  <<48, 1, k>> \o (IF withSighashType THEN <<SIGHASH_ALL>> ELSE <<>>)

\* A hex string that is no signature: validateMultisigSignature throws on it.
Malformed == <<222, 173>>

AddressTypes == {P2SH, P2SH_P2WSH, P2WSH}

\* 1-of-2 and 2-of-3 multisigs of every address type; the public keys are
\* listed in an order that is not the order of their values.
Multisigs ==
  {Multisig(t, 1, <<2, 1>>) : t \in AddressTypes}
    \cup {Multisig(t, 2, <<3, 1, 2>>) : t \in AddressTypes}

GridMultisigs ==
  {Multisig(P2SH, 2, <<3, 1, 2>>), Multisig(P2WSH, 1, <<2, 1>>),
   Multisig(P2SH_P2WSH, 2, <<2, 1>>)}

ShapeMultisigs == {Multisig(P2SH_P2WSH, 1, <<2, 1>>)}

Input(txid, index, multisig) == [txid |-> txid, index |-> index, multisig |-> multisig]

Output(net) == [address |-> [network |-> net], amountSats |-> 90000]

\* n valid inputs with the given multisigs.
InputsOf(multisigs) ==
  [i \in 1..Len(multisigs) |-> Input(<<170>>, i - 1, multisigs[i])]

Matrix(rows) == [defined |-> TRUE, rows |-> rows]

NoMatrix == [defined |-> FALSE, rows |-> <<>>]

\* The entries of a matrix of one column: every kind of entry.
ColumnEntries ==
  {Empty, Malformed} \cup {Sig(k, sh) : k \in 1..3, sh \in BOOLEAN}

\* The entries of a matrix of several columns.
GridEntries == {Empty, Sig(1, FALSE), Sig(2, TRUE)}

\* Inputs that may be invalid, outputs that may be invalid or missing.
ShapeInputs ==
  UNION {[1..n -> {Input(txid, 0, ms) : txid \in {Empty, <<170>>}, ms \in ShapeMultisigs}] :
           n \in 0..MaxInputs}

ShapeOutputs == {<<>>} \cup {<<Output(net)>> : net \in NETWORKS}

\* A row of the given length for n inputs: signatures by key 2 for the
\* inputs, entries that are no signatures beyond them.
ShapeRow(len, n) == [i \in 1..len |-> IF i <= n THEN Sig(2, FALSE) ELSE Malformed]

NoKey ==
  [text |-> FALSE, prefix |-> "", length |-> 0, payload |-> "", checksum |-> FALSE,
   trailing |-> FALSE]

NoResult == [threw |-> FALSE, error |-> NoErr, value |-> NoTransaction]

-----------------------------------------------------------------------------
(* The calls. *)

\* The caller's arguments of a call on transactions.js.
TxCall(f, net, ins, outs, sigs) ==
  /\ pc = "ready"
  /\ fn = f
  /\ network = net
  /\ inputs = ins
  /\ outputs = outs
  /\ transactionSignatures = sigs
  /\ key = NoKey
  /\ targetPrefix = ""
  /\ result = NoResult

\* One valid input of any multisig, and up to MaxRows rows of one entry each.
InitColumn ==
  \E ms \in Multisigs, r \in 0..MaxRows :
    \E col \in [1..r -> ColumnEntries] :
      TxCall("signedMultisigTransaction", TESTNET, InputsOf(<<ms>>),
             <<Output(TESTNET)>>, Matrix([q \in 1..r |-> <<col[q]>>]))

\* 2..MaxInputs valid inputs and 1..MaxRows rows of exactly one entry per input.
InitGrid ==
  \E n \in 2..MaxInputs, r \in 1..MaxRows :
    \E mss \in [1..n -> GridMultisigs], rows \in [1..r -> [1..n -> GridEntries]] :
      TxCall("signedMultisigTransaction", TESTNET, InputsOf(mss),
             <<Output(TESTNET)>>, Matrix(rows))

\* Inputs and outputs that may be invalid; no matrix, or up to MaxRows rows,
\* each of 0 to n + 1 entries for n inputs.
InitShape ==
  \E net \in NETWORKS, ins \in ShapeInputs, outs \in ShapeOutputs :
    \/ TxCall("signedMultisigTransaction", net, ins, outs, NoMatrix)
    \/ \E r \in 0..MaxRows :
         \E lens \in [1..r -> 0..(Len(ins) + 1)] :
           TxCall("signedMultisigTransaction", net, ins, outs,
                  Matrix([q \in 1..r |-> ShapeRow(lens[q], Len(ins))]))

InitUnsigned ==
  \E net \in NETWORKS, ins \in ShapeInputs, outs \in ShapeOutputs :
    TxCall("unsignedMultisigTransaction", net, ins, outs, NoMatrix)

\* The entries of a matrix that holds entries no input accepts: a signature
\* by a key of the multisig, one by another key, one that does not decode.
StrangerEntries == {Sig(1, FALSE), Sig(3, TRUE), Malformed}

\* 2..MaxInputs inputs of one 1-of-2 multisig and 1..MaxRows rows.
InitStranger ==
  \E n \in 2..MaxInputs, r \in 1..MaxRows :
    \E rows \in [1..r -> [1..n -> StrangerEntries]] :
      TxCall("signedMultisigTransaction", TESTNET,
             InputsOf([q \in 1..n |-> Multisig(P2WSH, 1, <<2, 1>>)]),
             <<Output(TESTNET)>>, Matrix(rows))

InitTx == InitColumn \/ InitGrid \/ InitStranger \/ InitShape \/ InitUnsigned

UnsignedMultisigTransaction ==
  /\ pc = "ready"
  /\ fn = "unsignedMultisigTransaction"
  /\ result' = unsignedMultisigTransaction(network, inputs, outputs)
  /\ pc' = "done"
  /\ UNCHANGED args

SignedMultisigTransaction ==
  /\ pc = "ready"
  /\ fn = "signedMultisigTransaction"
  /\ result' = signedMultisigTransaction(network, inputs, outputs, transactionSignatures)
  /\ pc' = "done"
  /\ UNCHANGED args

NextTx == UnsignedMultisigTransaction \/ SignedMultisigTransaction

SpecTx == InitTx /\ [][NextTx]_vars

-----------------------------------------------------------------------------
(* keys.js.                                                                *)
(*                                                                         *)
(* A key argument is [text, prefix, length, payload, checksum, trailing]:  *)
(* text is FALSE for null/undefined; prefix is the string's first four     *)
(* characters; length its number of characters; payload names the bytes    *)
(* that follow the version in its base58check decoding; checksum says      *)
(* whether the trimmed string base58check-decodes; trailing whether the    *)
(* string ends in white space.  A message is a sequence of string          *)
(* fragments, <<>> for the empty string.                                   *)

extendedPublicKeyVersions ==
  [p \in {"xpub", "ypub", "zpub", "Ypub", "Zpub", "tpub", "upub", "vpub", "Upub", "Vpub"} |->
     CASE p = "xpub" -> "0488b21e"
       [] p = "ypub" -> "049d7cb2"
       [] p = "zpub" -> "04b2430c"
       [] p = "Ypub" -> "0295b43f"
       [] p = "Zpub" -> "02aa7ed3"
       [] p = "tpub" -> "043587cf"
       [] p = "upub" -> "044a5262"
       [] p = "vpub" -> "045f1cf6"
       [] p = "Upub" -> "024289ef"
       [] p = "Vpub" -> "02575483"]

\* The shortest extended public key (line 144).
MinExtendedPublicKeyLength == 111

\* Payloads that are the BIP32 serialization of a key.
ValidPayloads == {"bip32-a", "bip32-b"}

\* bs58check.decode: the version and the payload of a key string; throws on
\* white space and on a wrong checksum.  The version of a string that starts
\* with one of the ten prefixes is that prefix's version.
Base58CheckDecode(string) ==
  IF string.trailing THEN [threw |-> TRUE, reason |-> "Non-base58 character"]
  ELSE IF ~string.checksum THEN [threw |-> TRUE, reason |-> "Invalid checksum"]
  ELSE [threw |-> FALSE, reason |-> "",
        version |-> IF string.prefix \in DOMAIN extendedPublicKeyVersions
                      THEN extendedPublicKeyVersions[string.prefix]
                      ELSE "00000000",
        payload |-> string.payload]

\* bs58check.encode of version bytes followed by a payload: the string
\* starts with the prefix of the version, has the shortest length, and
\* decodes.
\* The encoding without its checksum.
Base58CheckEncode_NoChecksum(version, payload) ==
  [text |-> TRUE,
   prefix |-> CHOOSE p \in DOMAIN extendedPublicKeyVersions :
                extendedPublicKeyVersions[p] = version,
   length |-> MinExtendedPublicKeyLength,
   payload |-> payload,
   checksum |-> FALSE,
   trailing |-> FALSE]

Base58CheckEncode(version, payload) ==
  [text |-> TRUE,
   prefix |-> CHOOSE p \in DOMAIN extendedPublicKeyVersions :
                extendedPublicKeyVersions[p] = version,
   length |-> MinExtendedPublicKeyLength,
   payload |-> payload,
   checksum |-> TRUE,
   trailing |-> FALSE]

\* String.prototype.trim on a key string.
Trim(string) ==
  IF string.trailing
    THEN [string EXCEPT !.trailing = FALSE, !.length = string.length - 1]
    ELSE string

\* networkData(network).bip32.public
NetworkPublicVersion(net) == IF net = TESTNET THEN "043587cf" ELSE "0488b21e"

\* bip32.fromBase58(inputString, networkData(network)): "" or why it throws.
Bip32FromBase58(string, net) ==
  LET decoded == Base58CheckDecode(string)
  IN  IF decoded.threw THEN decoded.reason
      ELSE IF decoded.version # NetworkPublicVersion(net) THEN "Invalid network version"
      ELSE IF decoded.payload \notin ValidPayloads THEN "Invalid public key"
      ELSE ""

validatePrefix(prefix, prefixType) ==
  IF prefix \notin DOMAIN extendedPublicKeyVersions
    THEN <<"Invalid", prefixType, "version for extended public key conversion">>
    ELSE <<>>

ConvertedMessage(sourcePrefix, target) ==
  <<"Your extended public key has been converted from", sourcePrefix, "to", target>>

\* A result without a message property.
ConversionError(extendedPublicKey, error) ==
  [extendedPublicKey |-> extendedPublicKey, hasMessage |-> FALSE, message |-> <<>>,
   error |-> error]

ConversionResult(extendedPublicKey, message, error) ==
  [extendedPublicKey |-> extendedPublicKey, hasMessage |-> TRUE, message |-> message,
   error |-> error]

\* A conversion to the key's own prefix answered without converting.
extendedPublicKeyConvert_ShortCircuit(extendedPublicKey, target) ==
  LET targetError == validatePrefix(target, "target")
      sourcePrefix == extendedPublicKey.prefix
      sourceError == validatePrefix(sourcePrefix, "source")
      decodedExtendedPublicKey == Base58CheckDecode(Trim(extendedPublicKey))
  IN  IF targetError # <<>> THEN ConversionError(extendedPublicKey, targetError)
      ELSE IF sourceError # <<>> THEN ConversionError(extendedPublicKey, sourceError)
      ELSE IF sourcePrefix = target THEN ConversionResult(extendedPublicKey, <<>>, <<>>)
      ELSE IF decodedExtendedPublicKey.threw
        THEN ConversionError(extendedPublicKey,
               <<"Unable to convert extended public key:", decodedExtendedPublicKey.reason>>)
      ELSE ConversionResult(
             Base58CheckEncode(extendedPublicKeyVersions[target],
                               decodedExtendedPublicKey.payload),
             ConvertedMessage(sourcePrefix, target), <<>>)

\* The source prefix looked at before the target prefix.
extendedPublicKeyConvert_SourceFirst(extendedPublicKey, target) ==
  LET targetError == validatePrefix(target, "target")
      sourcePrefix == extendedPublicKey.prefix
      sourceError == validatePrefix(sourcePrefix, "source")
      decodedExtendedPublicKey == Base58CheckDecode(Trim(extendedPublicKey))
  IN  IF sourceError # <<>> THEN ConversionError(extendedPublicKey, sourceError)
      ELSE IF targetError # <<>> THEN ConversionError(extendedPublicKey, targetError)
      ELSE IF decodedExtendedPublicKey.threw
        THEN ConversionError(extendedPublicKey,
               <<"Unable to convert extended public key:", decodedExtendedPublicKey.reason>>)
      ELSE ConversionResult(
             Base58CheckEncode(extendedPublicKeyVersions[target],
                               decodedExtendedPublicKey.payload),
             ConvertedMessage(sourcePrefix, target), <<>>)

extendedPublicKeyConvert(extendedPublicKey, target) ==
  LET targetError == validatePrefix(target, "target")
      sourcePrefix == extendedPublicKey.prefix
      sourceError == validatePrefix(sourcePrefix, "source")
      decodedExtendedPublicKey == Base58CheckDecode(Trim(extendedPublicKey))
  IN  IF targetError # <<>> THEN ConversionError(extendedPublicKey, targetError)
      ELSE IF sourceError # <<>> THEN ConversionError(extendedPublicKey, sourceError)
      ELSE IF decodedExtendedPublicKey.threw
        THEN ConversionError(extendedPublicKey,
               <<"Unable to convert extended public key:", decodedExtendedPublicKey.reason>>)
      ELSE ConversionResult(
             Base58CheckEncode(extendedPublicKeyVersions[target],
                               decodedExtendedPublicKey.payload),
             ConvertedMessage(sourcePrefix, target), <<>>)

extendedPublicKeyNetworkValidateion(extendedPublicKey, net) ==
  LET requiredPrefix == IF net = TESTNET THEN "'xpub' or 'tpub'" ELSE "'xpub'"
      prefix == extendedPublicKey.prefix
  IN  IF ~(prefix = "xpub" \/ (net = TESTNET /\ prefix = "tpub"))
        THEN <<"Extended public key must begin with", requiredPrefix>>
        ELSE <<>>

\* The length check before the blank check.
preExtendedPublicKeyValidation_LengthFirst(extendedPublicKey, net) ==
  IF extendedPublicKey.text /\ extendedPublicKey.length < MinExtendedPublicKeyLength
    THEN <<"Extended public key length is too short.">>
  ELSE IF ~extendedPublicKey.text \/ extendedPublicKey.length = 0
    THEN <<"Extended public key cannot be blank.">>
  ELSE <<>>

preExtendedPublicKeyValidation(extendedPublicKey, net) ==
  IF ~extendedPublicKey.text \/ extendedPublicKey.length = 0
    THEN <<"Extended public key cannot be blank.">>
  ELSE IF extendedPublicKey.length < MinExtendedPublicKeyLength
    THEN <<"Extended public key length is too short.">>
  ELSE <<>>

validateExtendedPublicKey(inputString, net) ==
  IF preExtendedPublicKeyValidation(inputString, net) # <<>>
    THEN preExtendedPublicKeyValidation(inputString, net)
  ELSE IF extendedPublicKeyNetworkValidateion(inputString, net) # <<>>
    THEN extendedPublicKeyNetworkValidateion(inputString, net)
  ELSE IF Bip32FromBase58(inputString, net) # ""
    THEN <<"Invalid extended public key:", Bip32FromBase58(inputString, net)>>
  ELSE <<>>

\* The target that forgets the network.
TargetPrefix_AlwaysXpub(net) == "xpub"

\* Line 103.
TargetPrefix(net) == IF net = TESTNET THEN "tpub" ELSE "xpub"

\* The failed validation reported with the converted key.
ConvertThenValidate_ReturnsConverted(extendedPublicKey, net) ==
  LET convertedExtendedPublicKey ==
        extendedPublicKeyConvert(extendedPublicKey, TargetPrefix(net))
  IN  IF convertedExtendedPublicKey.extendedPublicKey # extendedPublicKey
        THEN IF validateExtendedPublicKey(convertedExtendedPublicKey.extendedPublicKey,
                                          net) = <<>>
               THEN convertedExtendedPublicKey
               ELSE ConversionError(convertedExtendedPublicKey.extendedPublicKey,
                      validateExtendedPublicKey(
                        convertedExtendedPublicKey.extendedPublicKey, net))
        ELSE convertedExtendedPublicKey

\* The failed validation written into the conversion's own result.
ConvertThenValidate_KeepsConversion(extendedPublicKey, net) ==
  LET convertedExtendedPublicKey ==
        extendedPublicKeyConvert(extendedPublicKey, TargetPrefix(net))
  IN  IF convertedExtendedPublicKey.extendedPublicKey # extendedPublicKey
        THEN [convertedExtendedPublicKey EXCEPT
                !.error = validateExtendedPublicKey(
                            convertedExtendedPublicKey.extendedPublicKey, net)]
        ELSE convertedExtendedPublicKey

\* Lines 117-122.
ConvertThenValidate(extendedPublicKey, net) ==
  LET convertedExtendedPublicKey ==
        extendedPublicKeyConvert(extendedPublicKey, TargetPrefix(net))
  IN  IF convertedExtendedPublicKey.extendedPublicKey # extendedPublicKey
        THEN IF validateExtendedPublicKey(convertedExtendedPublicKey.extendedPublicKey,
                                          net) = <<>>
               THEN convertedExtendedPublicKey
               ELSE ConversionError(extendedPublicKey,
                      validateExtendedPublicKey(
                        convertedExtendedPublicKey.extendedPublicKey, net))
        ELSE convertedExtendedPublicKey

\* Converting without asking first whether the key is valid as it is.
convertAndValidateExtendedPublicKey_AlwaysConverts(extendedPublicKey, net) ==
  IF preExtendedPublicKeyValidation(extendedPublicKey, net) # <<>>
    THEN ConversionError(extendedPublicKey,
                         preExtendedPublicKeyValidation(extendedPublicKey, net))
  ELSE ConvertThenValidate(extendedPublicKey, net)

convertAndValidateExtendedPublicKey(extendedPublicKey, net) ==
  IF preExtendedPublicKeyValidation(extendedPublicKey, net) # <<>>
    THEN ConversionError(extendedPublicKey,
                         preExtendedPublicKeyValidation(extendedPublicKey, net))
  ELSE IF /\ extendedPublicKeyNetworkValidateion(extendedPublicKey, net) = <<>>
          /\ validateExtendedPublicKey(extendedPublicKey, net) = <<>>
    THEN ConversionResult(extendedPublicKey, <<>>, <<>>)
  ELSE ConvertThenValidate(extendedPublicKey, net)

\* A hex string is [bytes, upper]: the bytes its pairs of digits spell and
\* whether its letters are capitals.  Buffer.from(string, 'hex').
BufferFromHex(string) == string.bytes

\* buffer.toString('hex'): small letters.
BufferToHex(buffer) == [bytes |-> buffer, upper |-> FALSE]

\* Reading the last byte when the index is beyond the end.
ByteAt_LastWhenBeyond(buffer, i) ==
  IF i + 1 <= Len(buffer) THEN buffer[i + 1] ELSE buffer[Len(buffer)]

\* buffer[i], i counted from 0: undefined beyond the end, which & reads as 0.
ByteAt(buffer, i) == IF i + 1 <= Len(buffer) THEN buffer[i + 1] ELSE 0

\* buffer.slice(start, end), both counted from 0 and cut at the end.
BufferSlice(buffer, start, end) ==
  SubSeq(buffer, start + 1, IF end <= Len(buffer) THEN end ELSE Len(buffer))

\* The parity read from the first byte of Y instead of the last.
compressPublicKey_FirstByteOfY(publicKey) ==
  LET pubkeyBuffer == BufferFromHex(publicKey)
      prefix == IF (ByteAt(pubkeyBuffer, 33) % 2) # 0 THEN 3 ELSE 2
  IN  BufferToHex(<<prefix>> \o BufferSlice(pubkeyBuffer, 1, 1 + 32))

compressPublicKey(publicKey) ==
  LET pubkeyBuffer == BufferFromHex(publicKey)
      prefix == IF (ByteAt(pubkeyBuffer, 64) % 2) # 0 THEN 3 ELSE 2
  IN  BufferToHex(<<prefix>> \o BufferSlice(pubkeyBuffer, 1, 1 + 32))

-----------------------------------------------------------------------------
(* The calls on keys.js. *)

\* X coordinates: one byte repeated, or the bytes 1, 2, ..., 32.
Coordinates ==
  {[i \in 1..32 |-> b] : b \in {0, 110, 255}} \cup {[i \in 1..32 |-> i]}

\* Y coordinates: a byte repeated 31 times and a last byte.
LastBytes == {0, 1, 2, 127, 128, 213, 254, 255}

YCoordinates ==
  {[i \in 1..32 |-> IF i = 32 THEN l ELSE b] : b \in {17, 110}, l \in LastBytes}

\* The 65-byte public keys, in small or capital hex digits.
UncompressedPublicKeys ==
  {[bytes |-> <<4>> \o x \o y, upper |-> u] :
     x \in Coordinates, y \in YCoordinates, u \in BOOLEAN}

\* The 33-byte public keys.
CompressedPublicKeys ==
  {[bytes |-> <<p>> \o x, upper |-> FALSE] : p \in {2, 3}, x \in Coordinates}

KeyString(prefix, length, payload, checksum, trailing) ==
  [text |-> TRUE, prefix |-> prefix, length |-> length, payload |-> payload,
   checksum |-> checksum, trailing |-> trailing]

KnownPrefixes == DOMAIN extendedPublicKeyVersions

\* Keys of full length: any of the ten prefixes or another one, a payload
\* that is or is not BIP32 key material, a right or wrong checksum, with or
\* without white space at the end.
FullKeys ==
  {KeyString(p, IF tr THEN MinExtendedPublicKeyLength + 1 ELSE MinExtendedPublicKeyLength,
             pl, c, tr) :
     p \in KnownPrefixes \cup {"apub"}, pl \in ValidPayloads \cup {"not-bip32"},
     c \in BOOLEAN, tr \in BOOLEAN}

\* "xpub", "tpub", and keys that lost their last character.
ShortKeys ==
  {KeyString(p, 4, "", FALSE, FALSE) : p \in {"xpub", "tpub"}}
    \cup {KeyString(p, MinExtendedPublicKeyLength - 1, "bip32-a", FALSE, FALSE) :
            p \in {"xpub", "tpub", "Zpub"}}

\* null/undefined and the empty string.
BlankKeys == {NoKey, KeyString("", 0, "", FALSE, FALSE)}

KeyStrings == FullKeys \cup ShortKeys \cup BlankKeys

NoConversion == ConversionError(NoKey, <<>>)

KeyCall(f, k, net, target) ==
  /\ pc = "ready"
  /\ fn = f
  /\ network = net
  /\ key = k
  /\ targetPrefix = target
  /\ inputs = <<>>
  /\ outputs = <<>>
  /\ transactionSignatures = NoMatrix
  /\ result = NoConversion

InitKeys ==
  \/ \E k \in KeyStrings, net \in NETWORKS :
       \/ KeyCall("validateExtendedPublicKey", k, net, "")
       \/ KeyCall("convertAndValidateExtendedPublicKey", k, net, "")
  \/ \E k \in KeyStrings \ {NoKey}, target \in KnownPrefixes \cup {"apub"} :
       KeyCall("extendedPublicKeyConvert", k, MAINNET, target)
  \/ \E k \in UncompressedPublicKeys \cup CompressedPublicKeys :
       KeyCall("compressPublicKey", k, MAINNET, "")

ValidateExtendedPublicKey ==
  /\ pc = "ready"
  /\ fn = "validateExtendedPublicKey"
  /\ result' = validateExtendedPublicKey(key, network)
  /\ pc' = "done"
  /\ UNCHANGED args

ConvertAndValidateExtendedPublicKey ==
  /\ pc = "ready"
  /\ fn = "convertAndValidateExtendedPublicKey"
  /\ result' = convertAndValidateExtendedPublicKey(key, network)
  /\ pc' = "done"
  /\ UNCHANGED args

ExtendedPublicKeyConvert ==
  /\ pc = "ready"
  /\ fn = "extendedPublicKeyConvert"
  /\ result' = extendedPublicKeyConvert(key, targetPrefix)
  /\ pc' = "done"
  /\ UNCHANGED args

CompressPublicKey ==
  /\ pc = "ready"
  /\ fn = "compressPublicKey"
  /\ result' = compressPublicKey(key)
  /\ pc' = "done"
  /\ UNCHANGED args

NextKeys ==
  \/ ValidateExtendedPublicKey
  \/ ConvertAndValidateExtendedPublicKey
  \/ ExtendedPublicKeyConvert
  \/ CompressPublicKey

SpecKeys == InitKeys /\ [][NextKeys]_vars

-----------------------------------------------------------------------------
(* What the properties below speak about. *)

SignedDone == pc = "done" /\ fn = "signedMultisigTransaction"

SignedReturned == SignedDone /\ ~result.threw

Rows == transactionSignatures.rows

\* The entries the caller supplied for input i, in the order of the rows,
\* without the falsy ones.
Candidates(i) ==
  LET column == [r \in 1..Len(Rows) |-> IF i <= Len(Rows[r]) THEN Rows[r][i] ELSE Empty]
  IN  SelectSeq(column, LAMBDA e : e # Empty)

PublicKeysOf(i) == inputs[i].multisig.publicKeys

RequiredOf(i) == inputs[i].multisig.m

\* The position of a public key in the public-key list of input i's multisig.
KeyIndex(i, publicKey) ==
  CHOOSE k \in 1..Len(PublicKeysOf(i)) : PublicKeysOf(i)[k] = publicKey

\* The signatures embedded in input i of the returned transaction: the
\* elements between the leading empty element and the trailing script.
Embedded(i) ==
  LET txIn == result.value.ins[i]
      stack == IF inputs[i].multisig.addressType = P2SH THEN txIn.script ELSE txIn.witness
  IN  SubSeq(stack, 2, Len(stack) - 1)

\* The public key that made an embedded signature (the DER body).
SignerOf(signature) == signature[3]

\* The matrix with its rows in the order perm[1], perm[2], ...
PermuteRows(perm) ==
  [transactionSignatures EXCEPT !.rows = [r \in 1..Len(Rows) |-> Rows[perm[r]]]]

RowOrders == {perm \in [1..Len(Rows) -> 1..Len(Rows)] :
                \A a, b \in 1..Len(Rows) : a # b => perm[a] # perm[b]}

\* What validateMultisigSignature makes of a supplied entry for input i.
Resolution(i, signature) ==
  validateMultisigSignature(network, inputs, outputs, i, signature)

\* The entry is a signature by a public key of input i's multisig.
IsValidFor(i, signature) ==
  ~Resolution(i, signature).threw /\ Resolution(i, signature).publicKey # 0

\* How many of the entries supplied for input i are valid signatures.
NumValid(i) == Len(SelectSeq(Candidates(i), LAMBDA e : IsValidFor(i, e)))

ValidationOK ==
  validateMultisigInputs(inputs) = "" /\ validateOutputs(network, outputs) = ""

\* There is a matrix, it has a row, and no row is shorter than the inputs.
ShapeOK ==
  /\ transactionSignatures.defined
  /\ Len(Rows) > 0
  /\ \A r \in 1..Len(Rows) : Len(Rows[r]) >= Len(inputs)

\* Input i passes every check: enough entries, all of them valid, no two by
\* the same public key.
InputOK(i) ==
  /\ Len(Candidates(i)) >= RequiredOf(i)
  /\ \A c \in 1..Len(Candidates(i)) : IsValidFor(i, Candidates(i)[c])
  /\ \A c, d \in 1..Len(Candidates(i)) :
       c # d => Resolution(i, Candidates(i)[c]).publicKey
                  # Resolution(i, Candidates(i)[d]).publicKey

\* The loop over the inputs gets to input i: nothing failed before it.
Reached(i) ==
  /\ ValidationOK
  /\ ShapeOK
  /\ i \in 1..Len(inputs)
  /\ \A j \in 1..(i - 1) : InputOK(j)

-----------------------------------------------------------------------------
\* C1: in every returned transaction the signatures embedded in an input are
\* in the order of that input's multisigPublicKeys, and calling with the rows
\* of the matrix in any other order returns the same transaction.
C1_DescriptorOrder ==
  SignedReturned =>
    /\ \A i \in 1..Len(inputs) :
         \A a, b \in 1..Len(Embedded(i)) :
           a < b => KeyIndex(i, SignerOf(Embedded(i)[a]))
                      < KeyIndex(i, SignerOf(Embedded(i)[b]))
    /\ \A perm \in RowOrders :
         signedMultisigTransaction(network, inputs, outputs, PermuteRows(perm)) = result

\* C1 witness: a returned transaction one of whose inputs carries two
\* signatures that the rows supplied in the opposite order.
C1_Witness ==
  /\ SignedReturned
  /\ \E i \in 1..Len(inputs) :
       /\ Len(Embedded(i)) = 2
       /\ Len(Candidates(i)) = 2
       /\ SignerOf(Candidates(i)[1]) = SignerOf(Embedded(i)[2])
       /\ SignerOf(Candidates(i)[2]) = SignerOf(Embedded(i)[1])

-----------------------------------------------------------------------------
\* C2 as stated: whenever the loop gets to an input for which fewer than M
\* valid signatures are supplied, the call fails with the error that names
\* that input and states the required and received counts.
C2_Original ==
  SignedDone =>
    \A i \in 1..Len(inputs) :
      (Reached(i) /\ NumValid(i) < RequiredOf(i)) =>
        /\ result.threw
        /\ result.error.msg = "Insufficient signatures for input"
        /\ result.error.index = i
        /\ result.error.require = RequiredOf(i)

\* C2 amended: the count is of the non-falsy entries, taken before any of
\* them is validated.  When the loop gets to an input with fewer than M
\* non-falsy entries the call fails with the error naming that input, M and
\* the number of non-falsy entries; with fewer than M valid signatures for
\* any input the call fails, with this or with another error.
C2_CountsEntries ==
  SignedDone =>
    /\ \A i \in 1..Len(inputs) :
         (Reached(i) /\ Len(Candidates(i)) < RequiredOf(i)) =>
           /\ result.threw
           /\ result.error = Err("Insufficient signatures for input", i, RequiredOf(i),
                                 Len(Candidates(i)), Empty)
    /\ \A i \in 1..Len(inputs) :
         (ValidationOK /\ NumValid(i) < RequiredOf(i)) => result.threw

\* C2 witness: the call failed on the count of its second input, for which
\* one entry was supplied and two are required.
C2_Witness ==
  /\ SignedDone
  /\ Reached(2)
  /\ Len(Candidates(2)) = 1
  /\ RequiredOf(2) = 2
  /\ result.threw
  /\ result.error.index = 2

-----------------------------------------------------------------------------
\* The public key an entry supplied for input i resolves to.
KeyOf(i, signature) == Resolution(i, signature).publicKey

\* Entry b of input i is the first entry of that input to fail a check, and
\* it fails because an earlier entry resolved to the same public key.
FirstFailureIsDuplicate(i, b) ==
  /\ b \in 1..Len(Candidates(i))
  /\ \A c \in 1..b : IsValidFor(i, Candidates(i)[c])
  /\ \A c, d \in 1..(b - 1) :
       c # d => KeyOf(i, Candidates(i)[c]) # KeyOf(i, Candidates(i)[d])
  /\ \E a \in 1..(b - 1) : KeyOf(i, Candidates(i)[a]) = KeyOf(i, Candidates(i)[b])

\* C3: when two entries supplied for one input resolve to the same public
\* key and the loop gets to the later of them, the call fails with 'Duplicate
\* signature' naming that input and that later entry; a 'Duplicate signature'
\* error is only ever about two entries of the one input it names, and
\* entries by one public key for different inputs do not make the call fail.
C3_DuplicateSignature ==
  SignedDone =>
    /\ \A i \in 1..Len(inputs) : \A b \in 1..Len(Candidates(i)) :
         (Reached(i) /\ Len(Candidates(i)) >= RequiredOf(i)
            /\ FirstFailureIsDuplicate(i, b)) =>
           /\ result.threw
           /\ result.error = Err("Duplicate signature for input", i, 0, 0,
                                 Candidates(i)[b])
    /\ (result.threw /\ result.error.msg = "Duplicate signature for input") =>
         LET i == result.error.index
         IN  /\ i \in 1..Len(inputs)
             /\ \E b \in 1..Len(Candidates(i)) :
                  /\ FirstFailureIsDuplicate(i, b)
                  /\ result.error.sig = Candidates(i)[b]
    /\ (ValidationOK /\ ShapeOK /\ \A i \in 1..Len(inputs) : InputOK(i)) =>
         ~result.threw

\* C3 witness: two different entries by one public key for one input (one
\* with, one without the sighash-type byte); the error names the later.
C3_Witness ==
  /\ SignedDone
  /\ result.threw
  /\ result.error.msg = "Duplicate signature for input"
  /\ Len(Candidates(1)) = 2
  /\ Candidates(1)[1] # Candidates(1)[2]
  /\ result.error.sig = Candidates(1)[2]

\* The same public key signs two inputs and the call returns.
C3_SameKeyTwoInputs ==
  /\ SignedReturned
  /\ Len(inputs) >= 2
  /\ \E c \in 1..Len(Candidates(1)), d \in 1..Len(Candidates(2)) :
       KeyOf(1, Candidates(1)[c]) = KeyOf(2, Candidates(2)[d])

-----------------------------------------------------------------------------
\* The matrix with every row cut to its first Len(inputs) entries.
TruncatedMatrix ==
  [transactionSignatures EXCEPT
     !.rows = [r \in 1..Len(Rows) |-> SubSeq(Rows[r], 1, Len(inputs))]]

ShortRows == {r \in 1..Len(Rows) : Len(Rows[r]) < Len(inputs)}

\* C4: the call fails when the matrix is absent or has no rows, and when a
\* row has fewer entries than there are inputs; with valid inputs and outputs
\* the error is the one about the matrix, resp. the one naming the first such
\* row (from 1), the number of inputs and the row's length.  Rows with more
\* entries are accepted, and the entries beyond the inputs make no difference
\* to what the call returns or throws.
C4_MatrixShape ==
  SignedDone =>
    /\ (~transactionSignatures.defined \/ Len(Rows) = 0) =>
         /\ result.threw
         /\ ValidationOK =>
              result.error = PlainErr("At least one transaction signature is required.")
    /\ (transactionSignatures.defined /\ ShortRows # {}) =>
         /\ result.threw
         /\ ValidationOK =>
              \E r \in ShortRows :
                /\ \A q \in ShortRows : r <= q
                /\ result.error =
                     Err("Insufficient input signatures for transaction signature",
                         r, Len(inputs), Len(Rows[r]), Empty)
    /\ ShapeOK =>
         /\ result.error.msg
              \notin {"At least one transaction signature is required.",
                      "Insufficient input signatures for transaction signature"}
         /\ result = signedMultisigTransaction(network, inputs, outputs, TruncatedMatrix)

\* C4 witness: a transaction is returned for a matrix with a row that has
\* more entries than there are inputs.
C4_Witness ==
  /\ SignedReturned
  /\ \E r \in 1..Len(Rows) : Len(Rows[r]) > Len(inputs)

\* A row is too short and the error names it.
C4_ShortRowSeen ==
  /\ SignedDone
  /\ result.error.msg = "Insufficient input signatures for transaction signature"
  /\ result.error.index = 2

-----------------------------------------------------------------------------
\* Input i of the returned transaction has unlocking data.
Populated(i) ==
  result.value.ins[i].script # <<>> \/ result.value.ins[i].witness # <<>>

C5_State ==
  SignedDone =>
    /\ result.threw => result.value = NoTransaction
    /\ ~result.threw =>
         /\ Len(result.value.ins) = Len(inputs)
         /\ \A i \in 1..Len(inputs) : Populated(i)

\* C5: a call that fails, at whatever check and on whatever input, hands the
\* caller no transaction; a transaction is returned only with the unlocking
\* data of every input populated; and no step of a call changes the caller's
\* network, inputs, outputs or signature matrix.
C5_NoPartialTransaction == [](C5_State) /\ [][args' = args]_vars

\* C5 witness: the call failed on its second input, after the first input
\* had passed every check and been given its unlocking data.
C5_Witness ==
  /\ SignedDone
  /\ result.threw
  /\ Reached(2)
  /\ result.error.index = 2
  /\ result.error.msg \in {"Insufficient signatures for input",
                           "Duplicate signature for input"}

-----------------------------------------------------------------------------
\* C6: in a returned transaction a P2WSH input has a witness and an empty
\* scriptSig, a P2SH-P2WSH input has a witness and a scriptSig that is the
\* single push of the redeem script, and any other input has a scriptSig and
\* an empty witness.
C6_UnlockingByAddressType ==
  SignedReturned =>
    \A i \in 1..Len(inputs) :
      LET txIn == result.value.ins[i]
          addressType == inputs[i].multisig.addressType
      IN  /\ addressType = P2WSH => (txIn.witness # <<>> /\ txIn.script = <<>>)
          /\ addressType = P2SH_P2WSH =>
               /\ txIn.witness # <<>>
               /\ txIn.script = <<multisigRedeemScript(inputs[i].multisig).output>>
          /\ addressType \notin {P2WSH, P2SH_P2WSH} =>
               (txIn.script # <<>> /\ txIn.witness = <<>>)

\* C6 witness: a returned transaction with a P2SH-P2WSH input and an input
\* of another address type.
C6_Witness ==
  /\ SignedReturned
  /\ \E i, j \in 1..Len(inputs) :
       /\ inputs[i].multisig.addressType = P2SH_P2WSH
       /\ inputs[j].multisig.addressType # P2SH_P2WSH

-----------------------------------------------------------------------------
\* The DER bytes of the signature by a public key, followed by the byte 01.
SignatureWith01(publicKey) == <<48, 1, publicKey, 1>>

\* The public keys of input i's multisig, in the multisig's order, for which
\* an entry was supplied.
SigningKeys(i) ==
  SelectSeq(PublicKeysOf(i),
            LAMBDA pk : \E c \in 1..Len(Candidates(i)) : KeyOf(i, Candidates(i)[c]) = pk)

\* C7: the witness of a P2WSH or P2SH-P2WSH input of a returned transaction
\* is one empty element, then per signature, in the order of the multisig's
\* public keys, its DER bytes followed by exactly one byte 01 (whether or not
\* the supplied signature ended with a sighash-type byte), then the witness
\* script.
C7_WitnessField ==
  SignedReturned =>
    \A i \in 1..Len(inputs) :
      inputs[i].multisig.addressType \in {P2WSH, P2SH_P2WSH} =>
        result.value.ins[i].witness =
          <<Empty>>
            \o [s \in 1..Len(SigningKeys(i)) |-> SignatureWith01(SigningKeys(i)[s])]
            \o <<MultisigScriptBytes(RequiredOf(i), PublicKeysOf(i))>>

\* C7 witness: a returned transaction with a segwit input for which one
\* signature was supplied with and one without the sighash-type byte.
C7_Witness ==
  /\ SignedReturned
  /\ \E i \in 1..Len(inputs) :
       /\ inputs[i].multisig.addressType \in {P2WSH, P2SH_P2WSH}
       /\ \E c, d \in 1..Len(Candidates(i)) :
            Len(Candidates(i)[c]) = 3 /\ Len(Candidates(i)[d]) = 4

-----------------------------------------------------------------------------
\* C8: unsignedMultisigTransaction throws the error of validateMultisigInputs
\* when there is one, otherwise the error of validateOutputs when there is
\* one, and builds no transaction; signedMultisigTransaction throws the same
\* error, whatever the signature matrix.
C8_ValidationFirst ==
  pc = "done" =>
    /\ validateMultisigInputs(inputs) # "" =>
         result = Threw(PlainErr(validateMultisigInputs(inputs)))
    /\ (validateMultisigInputs(inputs) = "" /\ validateOutputs(network, outputs) # "") =>
         result = Threw(PlainErr(validateOutputs(network, outputs)))
    /\ (fn = "unsignedMultisigTransaction" /\ ValidationOK) => ~result.threw

\* C8 witness: signedMultisigTransaction called with invalid inputs, invalid
\* outputs and no matrix threw the error of the inputs.
C8_Witness ==
  /\ SignedDone
  /\ validateMultisigInputs(inputs) # ""
  /\ validateOutputs(network, outputs) # ""
  /\ ~transactionSignatures.defined
  /\ result.threw
  /\ result.error.msg = validateMultisigInputs(inputs)

-----------------------------------------------------------------------------
\* The key is one that deserializes as BIP32 under the network's parameters:
\* no white space, a right checksum, the version of the network, a payload
\* that is BIP32 key material.
Deserializes(k, net) ==
  /\ ~k.trailing
  /\ k.checksum
  /\ k.prefix = (IF net = TESTNET THEN "tpub" ELSE "xpub")
  /\ k.payload \in ValidPayloads

PrefixAccepted(k, net) == k.prefix = "xpub" \/ (net = TESTNET /\ k.prefix = "tpub")

IsBlank(k) == ~k.text \/ k.length = 0

\* C9: validateExtendedPublicKey returns the empty string exactly for a key
\* that is not blank, has at least 111 characters, begins with 'xpub' (or,
\* on TESTNET, 'tpub') and deserializes under the network; otherwise it
\* returns the message of the first failing check in the order blank, too
\* short, wrong prefix, structurally invalid.
C9_ValidateExtendedPublicKey ==
  (pc = "done" /\ fn = "validateExtendedPublicKey") =>
    /\ result = <<>> <=>
         /\ ~IsBlank(key)
         /\ key.length >= 111
         /\ PrefixAccepted(key, network)
         /\ Deserializes(key, network)
    /\ IsBlank(key) => result = <<"Extended public key cannot be blank.">>
    /\ (~IsBlank(key) /\ key.length < 111) =>
         result = <<"Extended public key length is too short.">>
    /\ (~IsBlank(key) /\ key.length >= 111 /\ ~PrefixAccepted(key, network)) =>
         /\ Len(result) = 2
         /\ result[1] = "Extended public key must begin with"
    /\ (~IsBlank(key) /\ key.length >= 111 /\ PrefixAccepted(key, network)
          /\ ~Deserializes(key, network)) =>
         /\ Len(result) = 2
         /\ result[1] = "Invalid extended public key:"

\* C9 witness: the 4-character key "xpub" was found too short.
C9_Witness ==
  /\ pc = "done"
  /\ fn = "validateExtendedPublicKey"
  /\ key = KeyString("xpub", 4, "", FALSE, FALSE)
  /\ result = <<"Extended public key length is too short.">>

\* A key was found valid.
C9_ValidSeen ==
  pc = "done" /\ fn = "validateExtendedPublicKey" /\ result = <<>> /\ network = TESTNET

-----------------------------------------------------------------------------
\* A key of full length with one of the ten prefixes, a right checksum and
\* a payload that is BIP32 key material.
ConvertibleKey(k) ==
  /\ k.text
  /\ k.length >= 111
  /\ k.prefix \in {"xpub", "ypub", "zpub", "Ypub", "Zpub", "tpub", "upub", "vpub",
                   "Upub", "Vpub"}
  /\ k.checksum
  /\ k.payload \in ValidPayloads

CanonicalTarget(net) == IF net = TESTNET THEN "tpub" ELSE "xpub"

\* C10: for such a key convertAndValidateExtendedPublicKey returns, with an
\* empty error, a key that has the network's canonical prefix and the
\* payload of the input; when the input was not valid for the network as it
\* was, the message is "... converted from <source> to <target>".
C10_ConvertsToCanonical ==
  (pc = "done" /\ fn = "convertAndValidateExtendedPublicKey" /\ ConvertibleKey(key)) =>
    /\ result.error = <<>>
    /\ result.extendedPublicKey.prefix = CanonicalTarget(network)
    /\ result.extendedPublicKey.payload = key.payload
    /\ validateExtendedPublicKey(key, network) # <<>> =>
         /\ result.hasMessage
         /\ result.message =
              <<"Your extended public key has been converted from", key.prefix, "to",
                CanonicalTarget(network)>>

\* C10 witness: an 'xpub' key given on TESTNET came back as a 'tpub' key.
C10_Witness ==
  /\ pc = "done"
  /\ fn = "convertAndValidateExtendedPublicKey"
  /\ ConvertibleKey(key)
  /\ network = TESTNET
  /\ key.prefix = "xpub"
  /\ result.extendedPublicKey.prefix = "tpub"
  /\ result.message = <<"Your extended public key has been converted from", "xpub", "to",
                        "tpub">>

-----------------------------------------------------------------------------
ConvertAndValidateDone == pc = "done" /\ fn = "convertAndValidateExtendedPublicKey"

\* The key is valid for the network as it is (the keys C9 finds valid).
ValidAsGiven(k, net) ==
  /\ ~IsBlank(k)
  /\ k.length >= 111
  /\ PrefixAccepted(k, net)
  /\ Deserializes(k, net)

\* C11: convertAndValidateExtendedPublicKey applied to a key that is valid
\* for the network as it is returns that key unchanged with the empty
\* string as message and the empty string as error: nothing is converted.
C11_ValidKeyUnchanged ==
  (ConvertAndValidateDone /\ ValidAsGiven(key, network)) =>
    /\ result.extendedPublicKey = key
    /\ result.hasMessage
    /\ result.message = <<>>
    /\ result.error = <<>>

\* C11 witness: a valid 'tpub' key given on TESTNET came back as it was,
\* with an empty message.
C11_Witness ==
  /\ ConvertAndValidateDone
  /\ network = TESTNET
  /\ key.prefix = "tpub"
  /\ ValidAsGiven(key, network)
  /\ result = ConversionResult(key, <<>>, <<>>)

-----------------------------------------------------------------------------
\* C12: whenever convertAndValidateExtendedPublicKey returns a result whose
\* error is empty, the returned key passes validateExtendedPublicKey for
\* that network.  The code breaks this: see C12_InvalidReportedValid.
C12_ErrorFreeIsValid ==
  (ConvertAndValidateDone /\ result.error = <<>>) =>
    validateExtendedPublicKey(result.extendedPublicKey, network) = <<>>

\* C12, the call that breaks it: an 'xpub' key given on MAINNET whose
\* checksum is right and whose payload is not BIP32 key material fails
\* validation, is converted from xpub to xpub into the very same string,
\* and line 122 returns that conversion, whose error is empty.
C12_InvalidReportedValid ==
  /\ ConvertAndValidateDone
  /\ network = MAINNET
  /\ key = KeyString("xpub", 111, "not-bip32", TRUE, FALSE)
  /\ validateExtendedPublicKey(key, network) # <<>>
  /\ result.extendedPublicKey = key
  /\ result.error = <<>>
  /\ result.message = <<"Your extended public key has been converted from", "xpub", "to",
                        "xpub">>

-----------------------------------------------------------------------------
ConvertDone == pc = "done" /\ fn = "extendedPublicKeyConvert"

TenPrefixes ==
  {"xpub", "ypub", "zpub", "Ypub", "Zpub", "tpub", "upub", "vpub", "Upub", "Vpub"}

\* The key has one of the ten prefixes and, white space at its ends apart,
\* a right checksum.
DecodesWithKnownPrefix(k) ==
  /\ k.text
  /\ k.prefix \in TenPrefixes
  /\ k.checksum

\* The same characters without the white space at the end.
Trimmed(k) ==
  IF k.trailing THEN [k EXCEPT !.trailing = FALSE, !.length = k.length - 1] ELSE k

\* C13: for known prefixes P and Q and a key that decodes with a known
\* source prefix, converting to P and then to Q yields the key that
\* converting to Q yields; the conversion to P has prefix P and the payload
\* of the key; converting it back to the key's own prefix yields the key
\* (the string that was decoded: the key without white space at its end).
C13_ConvertComposes ==
  (ConvertDone /\ targetPrefix \in TenPrefixes /\ DecodesWithKnownPrefix(key)) =>
    /\ result.error = <<>>
    /\ result.extendedPublicKey.prefix = targetPrefix
    /\ result.extendedPublicKey.payload = key.payload
    /\ \A Q \in TenPrefixes :
         /\ extendedPublicKeyConvert(result.extendedPublicKey, Q).error = <<>>
         /\ extendedPublicKeyConvert(result.extendedPublicKey, Q).extendedPublicKey
              = extendedPublicKeyConvert(key, Q).extendedPublicKey
    /\ extendedPublicKeyConvert(result.extendedPublicKey, key.prefix).extendedPublicKey
         = Trimmed(key)

\* C13 witness: a 'Zpub' key was converted to 'vpub', and the 'vpub' key
\* converts to the 'xpub' key that the 'Zpub' key converts to.
C13_Witness ==
  /\ ConvertDone
  /\ key.prefix = "Zpub"
  /\ targetPrefix = "vpub"
  /\ DecodesWithKnownPrefix(key)
  /\ result.extendedPublicKey.prefix = "vpub"
  /\ extendedPublicKeyConvert(result.extendedPublicKey, "xpub").extendedPublicKey.prefix
       = "xpub"
  /\ extendedPublicKeyConvert(result.extendedPublicKey, "xpub").extendedPublicKey
       = extendedPublicKeyConvert(key, "xpub").extendedPublicKey

-----------------------------------------------------------------------------
\* C14: extendedPublicKeyConvert returns the input key unchanged with the
\* error "Invalid target version ..." when the target prefix is not one of
\* the ten, whatever the source prefix; otherwise "Invalid source version
\* ..." when the key's first 4 characters are not one of the ten; otherwise
\* "Unable to convert extended public key: <reason>" when the base58check
\* decoding fails.
C14_ConvertErrorOrder ==
  ConvertDone =>
    /\ targetPrefix \notin TenPrefixes =>
         /\ result.extendedPublicKey = key
         /\ result.error =
              <<"Invalid", "target", "version for extended public key conversion">>
    /\ (targetPrefix \in TenPrefixes /\ key.prefix \notin TenPrefixes) =>
         /\ result.extendedPublicKey = key
         /\ result.error =
              <<"Invalid", "source", "version for extended public key conversion">>
    /\ (targetPrefix \in TenPrefixes /\ key.prefix \in TenPrefixes /\ ~key.checksum) =>
         /\ result.extendedPublicKey = key
         /\ Len(result.error) = 2
         /\ result.error[1] = "Unable to convert extended public key:"
         /\ result.error[2] # ""

\* C14 witness: both prefixes were unknown and the error names the target.
C14_Witness ==
  /\ ConvertDone
  /\ targetPrefix = "apub"
  /\ key.prefix = "apub"
  /\ result.extendedPublicKey = key
  /\ result.error = <<"Invalid", "target", "version for extended public key conversion">>

\* A decoding failure was reported for known prefixes.
C14_DecodeFailureSeen ==
  /\ ConvertDone
  /\ targetPrefix = "tpub"
  /\ key.prefix = "xpub"
  /\ key.length = 111
  /\ result.error = <<"Unable to convert extended public key:", "Invalid checksum">>

-----------------------------------------------------------------------------
\* The three kinds of result.
IsConversion(r) == r.hasMessage /\ r.message # <<>> /\ r.error = <<>>

IsNoOp(r, k) == r.extendedPublicKey = k /\ r.hasMessage /\ r.message = <<>> /\ r.error = <<>>

IsFailure(r, k) == r.error # <<>> /\ r.extendedPublicKey = k

Count(b) == IF b THEN 1 ELSE 0

\* C15: every result of extendedPublicKeyConvert and of
\* convertAndValidateExtendedPublicKey is exactly one of: a conversion with
\* a non-empty message and no error; a no-op with the input key, an empty
\* message and no error; a failure with a non-empty error and the input
\* key.  No result has both a non-empty message and a non-empty error.
C15_ResultKinds ==
  (ConvertDone \/ ConvertAndValidateDone) =>
    /\ Count(IsConversion(result)) + Count(IsNoOp(result, key))
         + Count(IsFailure(result, key)) = 1
    /\ ~(result.hasMessage /\ result.message # <<>> /\ result.error # <<>>)

\* C15 witness: a 'ypub' key whose payload is not BIP32 key material was
\* converted, the converted key failed validation, and the result is a
\* failure with the input key and no message.
C15_Witness ==
  /\ ConvertAndValidateDone
  /\ key = KeyString("ypub", 111, "not-bip32", TRUE, FALSE)
  /\ IsFailure(result, key)
  /\ ~result.hasMessage
  /\ result.error[1] = "Invalid extended public key:"

\* Results of the two other kinds were returned.
C15_OtherKindsSeen ==
  \/ ConvertDone /\ IsConversion(result) /\ result.extendedPublicKey # key
  \/ ConvertAndValidateDone /\ IsNoOp(result, key)

-----------------------------------------------------------------------------
CompressDone == pc = "done" /\ fn = "compressPublicKey"

\* C16: for a 65-byte public key compressPublicKey returns 33 bytes: 03
\* when the last byte of the Y coordinate (byte 64) is odd and 02 when it is
\* even, followed by the X coordinate (bytes 1..32 of the input).
C16_CompressedForm ==
  (CompressDone /\ Len(key.bytes) = 65) =>
    /\ Len(result.bytes) = 33
    /\ result.bytes[1] = (IF key.bytes[65] % 2 = 1 THEN 3 ELSE 2)
    /\ \A i \in 1..32 : result.bytes[i + 1] = key.bytes[i + 1]

\* C16 witness: a key whose Y coordinate ends in d5 and starts with an even
\* byte was compressed to 03 followed by the bytes 1, 2, ..., 32.
C16_Witness ==
  /\ CompressDone
  /\ Len(key.bytes) = 65
  /\ key.bytes[65] = 213
  /\ key.bytes[34] = 110
  /\ result.bytes = <<3>> \o [i \in 1..32 |-> i]

\* A key with an even Y coordinate was compressed to 02 ...
C16_EvenSeen ==
  /\ CompressDone
  /\ Len(key.bytes) = 65
  /\ key.bytes[65] = 254
  /\ key.bytes[34] = 17
  /\ result.bytes[1] = 2

-----------------------------------------------------------------------------
\* C17 as stated: compressPublicKey applied to the compressed form of a
\* 65-byte key returns that compressed form, whatever the parity of the Y
\* coordinate.
C17_Idempotent ==
  (CompressDone /\ Len(key.bytes) = 65) => compressPublicKey(result) = result

\* C17: compressPublicKey applied to a 33-byte key finds no byte 64, reads
\* the parity as 0 and returns 02 followed by the X coordinate.  Applied to
\* the compressed form of a 65-byte key it returns that compressed form
\* exactly when the Y coordinate is even; from the second application on the
\* result no longer changes.
C17_RecompressionDropsParity ==
  /\ (CompressDone /\ Len(key.bytes) = 33) =>
       result.bytes = <<2>> \o SubSeq(key.bytes, 2, 33)
  /\ (CompressDone /\ Len(key.bytes) = 65) =>
       /\ compressPublicKey(result).bytes = <<2>> \o SubSeq(key.bytes, 2, 33)
       /\ (compressPublicKey(result) = result) <=> (key.bytes[65] % 2 = 0)
       /\ compressPublicKey(compressPublicKey(result)) = compressPublicKey(result)

\* C17 witness: the compressed key 03 ff...ff was given and 02 ff...ff, the
\* key of the other point with that X coordinate, came back.
C17_Witness ==
  /\ CompressDone
  /\ Len(key.bytes) = 33
  /\ key.bytes[1] = 3
  /\ key.bytes[33] = 255
  /\ result.bytes[1] = 2
  /\ SubSeq(result.bytes, 2, 33) = SubSeq(key.bytes, 2, 33)

-----------------------------------------------------------------------------
InvalidSignatureMessages ==
  {"Invalid signature for input (threw)", "Invalid signature for input"}

\* Entry b of input i is the first entry of that input to fail a check, and
\* it fails because its resolution throws or finds no public key.
FirstFailureIsInvalid(i, b) ==
  /\ b \in 1..Len(Candidates(i))
  /\ \A c \in 1..(b - 1) : IsValidFor(i, Candidates(i)[c])
  /\ \A c, d \in 1..(b - 1) :
       c # d => KeyOf(i, Candidates(i)[c]) # KeyOf(i, Candidates(i)[d])
  /\ ~IsValidFor(i, Candidates(i)[b])

\* C18: every entry supplied for an input is resolved by
\* validateMultisigSignature: when the loop gets to an input that has the
\* required number of entries and the first of its entries to fail is one
\* whose resolution throws or finds no public key, the call fails with
\* 'Invalid signature' naming that input (from 1) and that entry; a returned
\* transaction has no such entry, and an 'Invalid signature' error is only
\* ever about an input whose count check passed.
C18_InvalidSignature ==
  SignedDone =>
    /\ \A i \in 1..Len(inputs) :
         (Reached(i) /\ Len(Candidates(i)) >= RequiredOf(i)) =>
           \A b \in 1..Len(Candidates(i)) :
             FirstFailureIsInvalid(i, b) =>
               /\ result.threw
               /\ result.error.msg =
                    (IF Resolution(i, Candidates(i)[b]).threw
                       THEN "Invalid signature for input (threw)"
                       ELSE "Invalid signature for input")
               /\ result.error.index = i
               /\ result.error.sig = Candidates(i)[b]
    /\ ~result.threw =>
         \A i \in 1..Len(inputs) :
           \A c \in 1..Len(Candidates(i)) : IsValidFor(i, Candidates(i)[c])
    /\ (result.threw /\ result.error.msg \in InvalidSignatureMessages) =>
         /\ Reached(result.error.index)
         /\ Len(Candidates(result.error.index)) >= RequiredOf(result.error.index)
         /\ \E b \in 1..Len(Candidates(result.error.index)) :
              /\ Candidates(result.error.index)[b] = result.error.sig
              /\ ~IsValidFor(result.error.index, result.error.sig)

\* C18 witness: the second input of two has the required number of entries,
\* one of them a signature by a key that is not in its multisig, and the
\* call failed with 'Invalid signature' for input 2 and that entry.
C18_Witness ==
  /\ SignedDone
  /\ Len(inputs) = 2
  /\ Reached(2)
  /\ Len(Candidates(2)) >= RequiredOf(2)
  /\ result.threw
  /\ result.error.msg = "Invalid signature for input"
  /\ result.error.index = 2
  /\ ~Resolution(2, result.error.sig).threw
  /\ Resolution(2, result.error.sig).publicKey = 0

\* A resolution that throws was reported, after a valid surplus entry.
C18_ThrowSeen ==
  /\ SignedDone
  /\ result.threw
  /\ result.error.msg = "Invalid signature for input (threw)"
  /\ Len(Candidates(result.error.index)) > RequiredOf(result.error.index)

-----------------------------------------------------------------------------
\* The conversion of the key to the network's target prefix.
Converted(k, net) == extendedPublicKeyConvert(k, CanonicalTarget(net))

\* The call gets to the conversion: the key is neither blank nor short, and
\* it is not valid for the network as it is.
ConversionAttempted(k, net) ==
  /\ ~IsBlank(k)
  /\ k.length >= 111
  /\ ~ValidAsGiven(k, net)

\* C19: in convertAndValidateExtendedPublicKey, when the conversion to the
\* network's target prefix produces a string different from the input and
\* the converted key fails validateExtendedPublicKey, the result holds the
\* input key, not the converted one, and as error the validation message of
\* the converted key.
C19_FailureKeepsInputKey ==
  (/\ ConvertAndValidateDone
   /\ ConversionAttempted(key, network)
   /\ Converted(key, network).extendedPublicKey # key
   /\ validateExtendedPublicKey(Converted(key, network).extendedPublicKey, network) # <<>>)
  =>
    /\ result.extendedPublicKey = key
    /\ result.extendedPublicKey # Converted(key, network).extendedPublicKey
    /\ result.error =
         validateExtendedPublicKey(Converted(key, network).extendedPublicKey, network)
    /\ ~result.hasMessage

\* C19 witness: a 'tpub' key with a right checksum and a payload that is not
\* BIP32 key material, given on MAINNET, was converted to an 'xpub' key that
\* failed validation; the result holds the 'tpub' key and that failure.
C19_Witness ==
  /\ ConvertAndValidateDone
  /\ network = MAINNET
  /\ key = KeyString("tpub", 111, "not-bip32", TRUE, FALSE)
  /\ Converted(key, network).extendedPublicKey.prefix = "xpub"
  /\ result.extendedPublicKey.prefix = "tpub"
  /\ result.error = <<"Invalid extended public key:", "Invalid public key">>

-----------------------------------------------------------------------------
\* How many public keys of input i's multisig have no signature among the
\* entries supplied for input i (in a returned transaction every entry is a
\* signature by a key of its own).
MissingSlots(i) == Len(PublicKeysOf(i)) - Len(Candidates(i))

\* The empty entries among the ones embedded in input i, between the leading
\* empty element and the script.
Placeholders(i) == SelectSeq(Embedded(i), LAMBDA e : e = Empty)

\* C20: in a returned transaction a legacy input's unlocking script holds one
\* placeholder for every public key of the multisig without a signature,
\* and a segwit input's witness holds no entry for such a key.  The code
\* breaks the first half: see C20_LegacyWithoutPlaceholder.
C20_PlaceholderPerMissingSlot ==
  SignedReturned =>
    \A i \in 1..Len(inputs) :
      IF inputs[i].multisig.addressType = P2SH
        THEN Len(Placeholders(i)) = MissingSlots(i)
        ELSE /\ Len(Placeholders(i)) = 0
             /\ Len(Embedded(i)) = Len(Candidates(i))

\* C20, the call that breaks it: a legacy 2-of-3 input signed by two of its
\* keys has the unlocking script OP_0, signature, signature, redeem script:
\* nothing stands for the third key.
C20_LegacyWithoutPlaceholder ==
  /\ SignedReturned
  /\ Len(inputs) = 1
  /\ inputs[1].multisig.addressType = P2SH
  /\ Len(PublicKeysOf(1)) = 3
  /\ Len(Candidates(1)) = 2
  /\ Len(result.value.ins[1].script) = 4
  /\ result.value.ins[1].script[1] = Empty
  /\ \A e \in 2..4 : result.value.ins[1].script[e] # Empty

\* C20, the half that holds: a segwit input signed by fewer keys than its
\* multisig has holds the signatures alone between the empty element and
\* the witness script.
C20_SegwitWithoutPlaceholder ==
  SignedReturned =>
    \A i \in 1..Len(inputs) :
      inputs[i].multisig.addressType # P2SH =>
        /\ Len(Placeholders(i)) = 0
        /\ Len(Embedded(i)) = Len(Candidates(i))

-----------------------------------------------------------------------------
C21_SameStringSeen ==
  /\ ConvertDone
  /\ targetPrefix = "tpub"
  /\ key.prefix = "tpub"
  /\ DecodesWithKnownPrefix(key)
  /\ result.extendedPublicKey = key
  /\ result.message # <<>>

-----------------------------------------------------------------------------
\* C22: in every returned transaction each input carries at least as many
\* signatures as its multisig requires, by pairwise different public keys
\* of that multisig, and as many as non-falsy entries were supplied for it:
\* signatures beyond the required number are embedded too.
C22_EnoughDistinctSigners ==
  SignedReturned =>
    \A i \in 1..Len(inputs) :
      /\ Len(Embedded(i)) >= RequiredOf(i)
      /\ Len(Embedded(i)) = Len(Candidates(i))
      /\ \A e \in 1..Len(Embedded(i)) :
           \E k \in 1..Len(PublicKeysOf(i)) : PublicKeysOf(i)[k] = SignerOf(Embedded(i)[e])
      /\ \A e, f \in 1..Len(Embedded(i)) :
           e # f => SignerOf(Embedded(i)[e]) # SignerOf(Embedded(i)[f])

\* C22 witness: of two inputs, a legacy 2-of-3 one carries two signatures
\* and a segwit 1-of-2 one carries two, one more than it requires.
C22_Witness ==
  /\ SignedReturned
  /\ Len(inputs) = 2
  /\ \E i, j \in 1..2 :
       /\ inputs[i].multisig.addressType = P2SH
       /\ RequiredOf(i) = 2
       /\ Len(Embedded(i)) = 2
       /\ inputs[j].multisig.addressType = P2WSH
       /\ RequiredOf(j) = 1
       /\ Len(Embedded(j)) = 2

=============================================================================
